---------------------------- MODULE Spec2Model ----------------------------
(***************************************************************************)
(* The wolfCrypt hash / CMAC handles of wrapper/rust/wolfssl:              *)
(*   sha.rs   SHA, SHA224..SHA512, SHA3_224..SHA3_512, SHAKE128, SHAKE256  *)
(*   cmac.rs  CMAC                                                         *)
(* Each wrapper operation is one action.  The native library behind the    *)
(* FFI boundary (wolfssl_sys) is modelled as an ideal collaborator: its    *)
(* outputs are symbolic terms over the bytes it was handed.                *)
(***************************************************************************)
EXTENDS Integers, Sequences, FiniteSets, TLC

VARIABLES handles, last, gen

vars == <<handles, last, gen>>

----------------------------------------------------------------------------
(* Lengths.  A usize / u32 value is kept as three base-2^16 digits          *)
(* <<hi, mid, lo>> = hi * 2^32 + mid * 2^16 + lo, so that lengths of 2^32   *)
(* bytes and more, and the truncation of `as u32`, are exact.               *)

Base == 2 ^ 16

L(n) == <<0, n \div Base, n % Base>>

LenAdd(x, y) ==
    LET lo  == x[3] + y[3]
        mid == x[2] + y[2] + (lo \div Base)
        hi  == x[1] + y[1] + (mid \div Base)
    IN  <<hi, mid % Base, lo % Base>>

LenLt(x, y) ==
    \/ x[1] < y[1]
    \/ x[1] = y[1] /\ x[2] < y[2]
    \/ x[1] = y[1] /\ x[2] = y[2] /\ x[3] < y[3]

LenLe(x, y) == x = y \/ LenLt(x, y)

\* x - y, for y <= x
LenSub(x, y) ==
    LET b0  == IF x[3] < y[3] THEN 1 ELSE 0
        lo  == x[3] + b0 * Base - y[3]
        b1  == IF x[2] < y[2] + b0 THEN 1 ELSE 0
        mid == x[2] + b1 * Base - y[2] - b0
        hi  == x[1] - y[1] - b1
    IN  <<hi, mid, lo>>

LenMin(x, y) == IF LenLt(x, y) THEN x ELSE y

\* the true remainder of a usize length by a small modulus
LenMod(x, m) ==
    LET b == Base % m
    IN  (x[1] * ((b * b) % m) + x[2] * b + x[3]) % m

\* `x as u32`: the value modulo 2^32
as_u32(x) == <<0, x[2], x[3]>>

\* u32 remainder and quotient by a small divisor
u32_rem(x, m) == (x[2] * (Base % m) + x[3]) % m

u32_div(x, m) ==
    LET r == x[2] % m
    IN  <<0, x[2] \div m, (r * Base + x[3]) \div m>>

\* a small u32 as a model integer
ToInt(x) == x[2] * Base + x[3]

----------------------------------------------------------------------------
(* Byte strings and buffers.  A buffer is a sequence of segments            *)
(* [v |-> what the bytes are, n |-> how many]; v is a symbolic term.        *)

Term(k, a, d, key, i) == [k |-> k, a |-> a, d |-> d, key |-> key, i |-> i]

ByteTerm(b)              == Term("byte", "", <<>>, <<>>, b)
FillTerm                 == Term("fill", "", <<>>, <<>>, 0)
PadTerm                  == Term("pad", "", <<>>, <<>>, 0)
DigestTerm(alg, data)    == Term("digest", alg, data, <<>>, 0)
XofTerm(alg, data, from) == Term("xof", alg, data, <<>>, from)
BlockTerm(alg, data, ix) == Term("block", alg, data, <<>>, ix)
TagTerm(key, data)       == Term("tag", "CMAC", data, key, 0)

Seg(v, n) == [v |-> v, n |-> n]

Zero == L(0)

\* n bytes of value b
Run(b, n) == IF n = Zero THEN <<>> ELSE <<Seg(ByteTerm(b), n)>>

\* a caller's buffer of len bytes before anything is written to it
Fill(len) == IF len = Zero THEN <<>> ELSE <<Seg(FillTerm, len)>>

RECURSIVE BLen(_)
BLen(s) == IF s = <<>> THEN Zero ELSE LenAdd(Head(s).n, BLen(Tail(s)))

\* canonical form: no empty segment, adjacent runs of one byte value merged
RECURSIVE Norm(_)
Norm(s) ==
    IF s = <<>> THEN <<>>
    ELSE LET h == Head(s)
             r == Norm(Tail(s))
         IN  IF h.n = Zero THEN r
             ELSE IF r # <<>> /\ h.v.k = "byte" /\ Head(r).v = h.v
                  THEN <<Seg(h.v, LenAdd(h.n, Head(r).n))>> \o Tail(r)
                  ELSE <<h>> \o r

Concat(x, y) == Norm(x \o y)

\* the first n bytes of s (all of s when it is shorter)
RECURSIVE Take(_, _)
Take(s, n) ==
    IF s = <<>> \/ n = Zero THEN <<>>
    ELSE LET h == Head(s)
         IN  IF LenLe(h.n, n)
             THEN <<h>> \o Take(Tail(s), LenSub(n, h.n))
             ELSE <<Seg(h.v, n)>>

\* a buffer of len bytes after its first bytes were overwritten by segs
Overwrite(len, segs) ==
    IF LenLe(BLen(segs), len)
    THEN segs \o Fill(LenSub(len, BLen(segs)))
    ELSE <<Seg(Term("overflow", "", segs, <<>>, 0), len)>>

----------------------------------------------------------------------------
(* Algorithms and their sizes.                                              *)

FixedAlgs == {"SHA", "SHA224", "SHA256", "SHA384", "SHA512",
              "SHA3_224", "SHA3_256", "SHA3_384", "SHA3_512"}
ShakeAlgs == {"SHAKE128", "SHAKE256"}
HashAlgs  == FixedAlgs \cup ShakeAlgs
Algs      == HashAlgs \cup {"CMAC"}

WC_SHA_DIGEST_SIZE      == 20
WC_SHA224_DIGEST_SIZE   == 28
WC_SHA256_DIGEST_SIZE   == 32
WC_SHA384_DIGEST_SIZE   == 48
WC_SHA512_DIGEST_SIZE   == 64
WC_SHA3_224_DIGEST_SIZE == 28
WC_SHA3_256_DIGEST_SIZE == 32
WC_SHA3_384_DIGEST_SIZE == 48
WC_SHA3_512_DIGEST_SIZE == 64
WC_SHA3_128_BLOCK_SIZE  == 168
WC_SHA3_256_BLOCK_SIZE  == 136

DIGEST_SIZE(alg) ==
    CASE alg = "SHA"      -> WC_SHA_DIGEST_SIZE
      [] alg = "SHA224"   -> WC_SHA224_DIGEST_SIZE
      [] alg = "SHA256"   -> WC_SHA256_DIGEST_SIZE
      [] alg = "SHA384"   -> WC_SHA384_DIGEST_SIZE
      [] alg = "SHA512"   -> WC_SHA512_DIGEST_SIZE
      [] alg = "SHA3_224" -> WC_SHA3_224_DIGEST_SIZE
      [] alg = "SHA3_256" -> WC_SHA3_256_DIGEST_SIZE
      [] alg = "SHA3_384" -> WC_SHA3_384_DIGEST_SIZE
      [] alg = "SHA3_512" -> WC_SHA3_512_DIGEST_SIZE

SQUEEZE_BLOCK_SIZE(alg) ==
    CASE alg = "SHAKE128" -> WC_SHA3_128_BLOCK_SIZE
      [] alg = "SHAKE256" -> WC_SHA3_256_BLOCK_SIZE

BUFFER_E     == -132
BAD_FUNC_ARG == -173
MEMORY_E     == -125

----------------------------------------------------------------------------
(* The native library behind wolfssl_sys.  Every entry point returns a     *)
(* status (0 = success) and works on the caller's opaque state blob        *)
(*   [phase, buf, squeezed, key]                                           *)
(* buf: the bytes absorbed so far, squeezed: the XOF blocks given out.     *)
(* The entry points of a handle take `fault`, the status the environment   *)
(* (device, allocator) makes the call end with; 0 when nothing goes wrong. *)

Faults == {0, MEMORY_E}

NoState == [phase |-> "uninitialized", buf |-> <<>>, squeezed |-> 0, key |-> <<>>]

FreshState(key) ==
    [phase |-> "initialized", buf |-> <<>>, squeezed |-> 0, key |-> key]

Native(rc, st, out) == [rc |-> rc, st |-> st, out |-> out]

\* wc_InitSha, wc_InitSha224, ..., wc_InitShake256
wc_Init(st, fault) ==
    IF fault # 0 THEN Native(fault, st, <<>>)
    ELSE Native(0, FreshState(<<>>), <<>>)

\* wc_ShaUpdate, ..., wc_Shake256_Update, wc_CmacUpdate
wc_Update(st, data, len, fault) ==
    IF fault # 0 THEN Native(fault, st, <<>>)
    ELSE Native(0, [st EXCEPT !.buf = Concat(@, Take(data, len)),
                              !.phase = "updated"], <<>>)

\* wc_ShaFinal, ..., wc_Sha3_512_Final: writes DIGEST_SIZE bytes and
\* leaves the state ready for the next message
wc_Final(alg, st, fault) ==
    IF fault # 0 THEN Native(fault, st, <<>>)
    ELSE Native(0, [FreshState(<<>>) EXCEPT !.phase = "finalized"],
                <<Seg(DigestTerm(alg, st.buf), L(DIGEST_SIZE(alg)))>>)

\* wc_Shake128_Final, wc_Shake256_Final: writes len bytes of output
wc_Shake_Final(alg, st, len, fault) ==
    IF fault # 0 THEN Native(fault, st, <<>>)
    ELSE Native(0, [FreshState(<<>>) EXCEPT !.phase = "finalized"],
                Norm(<<Seg(XofTerm(alg, st.buf, st.squeezed), len)>>))

\* wc_Shake128_Absorb, wc_Shake256_Absorb: absorbs the data and pads
wc_Shake_Absorb(st, data, len, fault) ==
    IF fault # 0 THEN Native(fault, st, <<>>)
    ELSE Native(0, [st EXCEPT
                      !.buf = Concat(@, Take(data, len)) \o <<Seg(PadTerm, L(1))>>,
                      !.phase = "absorbed"], <<>>)

\* wc_Shake128_SqueezeBlocks, wc_Shake256_SqueezeBlocks: writes the next
\* n_blocks blocks of the output stream
wc_Shake_SqueezeBlocks(alg, st, n_blocks, fault) ==
    IF fault # 0 THEN Native(fault, st, <<>>)
    ELSE Native(0, [st EXCEPT !.squeezed = @ + ToInt(n_blocks),
                              !.phase = "squeezing"],
                [i \in 1..ToInt(n_blocks) |->
                    Seg(BlockTerm(alg, st.buf, st.squeezed + i - 1),
                        L(SQUEEZE_BLOCK_SIZE(alg)))])

AES_KEY_SIZES == {L(16), L(24), L(32)}
WC_CMAC_TAG_MIN_SZ == 4
WC_CMAC_TAG_MAX_SZ == 16

CmacTagSizeOk(sz) ==
    LenLe(L(WC_CMAC_TAG_MIN_SZ), sz) /\ LenLe(sz, L(WC_CMAC_TAG_MAX_SZ))

\* wc_InitCmac
wc_InitCmac(st, key, key_size, fault) ==
    IF fault # 0 THEN Native(fault, st, <<>>)
    ELSE IF key_size \notin AES_KEY_SIZES THEN Native(BAD_FUNC_ARG, st, <<>>)
    ELSE Native(0, FreshState(Take(key, key_size)), <<>>)

\* wc_CmacFinalNoFree: writes the first *outSz bytes of the tag
wc_CmacFinalNoFree(st, out_size, fault) ==
    IF fault # 0 THEN Native(fault, st, <<>>)
    ELSE IF ~CmacTagSizeOk(out_size) THEN Native(BUFFER_E, st, <<>>)
    ELSE Native(0, [st EXCEPT !.phase = "finalized"],
                <<Seg(TagTerm(st.key, st.buf), out_size)>>)

\* wc_AesCmacGenerate: init, update, final on a state of its own
wc_AesCmacGenerate(out_size, data, data_size, key, key_size) ==
    IF key_size \notin AES_KEY_SIZES THEN Native(BAD_FUNC_ARG, NoState, <<>>)
    ELSE IF ~CmacTagSizeOk(out_size) THEN Native(BUFFER_E, NoState, <<>>)
    ELSE Native(0, NoState,
                <<Seg(TagTerm(Take(key, key_size), Norm(Take(data, data_size))),
                      out_size)>>)

\* wc_AesCmacVerify: 0 when the first bytes of check are the tag of the
\* data, 1 when they are not, negative when the tag could not be computed.
\* check is [segs, flip]: flip is the index of the one byte that has a bit
\* flipped, or NoFlip.
NoFlip == <<-1, 0, 0>>

wc_AesCmacVerify(check, check_size, data, data_size, key, key_size) ==
    LET n    == LenMin(check_size, L(WC_CMAC_TAG_MAX_SZ))
        tag  == TagTerm(Take(key, key_size), Norm(Take(data, data_size)))
        same == /\ Take(check.segs, n) = <<Seg(tag, n)>>
                /\ check.flip = NoFlip \/ LenLe(n, check.flip)
    IN  IF check_size = Zero THEN Native(BAD_FUNC_ARG, NoState, <<>>)
        ELSE IF key_size \notin AES_KEY_SIZES THEN Native(BAD_FUNC_ARG, NoState, <<>>)
        ELSE Native(IF same THEN 0 ELSE 1, NoState, <<>>)

----------------------------------------------------------------------------
(* Results and the handles.  Handles share nothing (each struct owns its    *)
(* native state), so the state is a function from handle ids to handles    *)
(* and every operation touches one of them.                                *)

Ok        == [ok |-> TRUE, val |-> 0]
OkBool(b) == [ok |-> TRUE, val |-> IF b THEN 1 ELSE 0]
Err(e)    == [ok |-> FALSE, val |-> e]

\* every failure reported as one generic error value
status_generic(rc) == IF rc # 0 THEN Err(-1) ELSE Ok

\* if rc != 0 { return Err(rc); } Ok(())
status(rc) == IF rc # 0 THEN Err(rc) ELSE Ok

\* verify with the test the other operations use: any nonzero status an error
verify_status_nonzero(rc) == IF rc # 0 THEN Err(rc) ELSE OkBool(TRUE)

\* verify with the test written `rc <= 0`: a tag that matches is an error
verify_status_le(rc) == IF rc <= 0 THEN Err(rc) ELSE OkBool(FALSE)

\* if rc < 0 { return Err(rc); } Ok(rc == 0)
verify_status(rc) == IF rc < 0 THEN Err(rc) ELSE OkBool(rc = 0)

\* one call into the native library: entry point, algorithm, the length
\* argument it was given (Zero when it takes none) and its status
Call(fn, alg, n, rc) == [fn |-> fn, alg |-> alg, n |-> n, rc |-> rc]

MaxFeeds  == 2
MaxBlocks == 3

(* A handle: the struct with its native state st, and what its owner has   *)
(* done with it since it was last initialized: fed, the concatenation of   *)
(* the slices update/absorb accepted; feeds, absorbs, how many there were; *)
(* given, the blocks squeeze_blocks handed out; frees, the native frees;   *)
(* finalized, whether a finalize has completed a computation on it; busy,  *)
(* the calls that hold the handle and have not returned yet, as            *)
(* [t |-> caller, op |-> method] (empty wherever calls are taken as one    *)
(* step); tally, the count of init() calls made on the handle and of runs  *)
(* of its native initializer, kept only where the counting was switched on *)
(* from the start (NoTally: not counted).                                  *)
NoTally == [inits |-> -1, ran |-> -1]

NoHandle ==
    [alg |-> "none", life |-> "none", st |-> NoState,
     fed |-> <<>>, feeds |-> 0, absorbs |-> 0, given |-> 0, frees |-> 0,
     finalized |-> FALSE, busy |-> {}, tally |-> NoTally]

\* the tally after a call of op that made the native calls `calls`: new()
\* starts the count for the handle it makes
Tally(t, op, calls) ==
    LET ran == Cardinality({i \in DOMAIN calls : calls[i].fn = "Init"})
    IN  IF t = NoTally THEN t
        ELSE IF op = "new" THEN [inits |-> 0, ran |-> ran]
        ELSE [inits |-> t.inits + (IF op = "init" THEN 1 ELSE 0),
              ran   |-> t.ran + ran]

Restart(hd) == [hd EXCEPT !.fed = <<>>, !.feeds = 0, !.absorbs = 0, !.given = 0]

NoGen == [ok |-> FALSE, key |-> <<>>, data |-> <<>>, len |-> Zero, out |-> <<>>]

NoLast ==
    [op |-> "none", h |-> 0, alg |-> "none", key |-> <<>>, data |-> <<>>,
     len |-> Zero, flip |-> NoFlip, res |-> Ok, calls |-> <<>>, out |-> <<>>,
     pre |-> NoHandle]

Init ==
    /\ handles = [h \in {1} |-> NoHandle]
    /\ last = NoLast
    /\ gen = NoGen

\* the native state kept in one static per type instead of in each struct:
\* what a call leaves is seen by every live handle of the type
Return_shared(h, op, alg, data, len, hd, res, calls, out) ==
    /\ handles' = [g \in DOMAIN handles |->
                     IF g = h
                     THEN [hd EXCEPT !.tally = Tally(handles[h].tally, op, calls)]
                     ELSE IF handles[g].life = "live" /\ handles[g].alg = alg
                          THEN [handles[g] EXCEPT !.st = hd.st]
                          ELSE handles[g]]
    /\ last' = [NoLast EXCEPT !.op = op, !.h = h, !.alg = alg, !.data = data,
                              !.len = len, !.res = res, !.calls = calls,
                              !.out = out, !.pre = handles[h]]
    /\ UNCHANGED gen

\* a call on handle h returns: hd is the handle after it, and the call's
\* hold on the receiver ends
Return(h, op, alg, data, len, hd, res, calls, out) ==
    /\ handles' = [handles EXCEPT ![h] =
                      [hd EXCEPT !.busy  = {b \in @ : b.op # op},
                                 !.tally = Tally(handles[h].tally, op, calls)]]
    /\ last' = [NoLast EXCEPT !.op = op, !.h = h, !.alg = alg, !.data = data,
                              !.len = len, !.res = res, !.calls = calls,
                              !.out = out, !.pre = handles[h]]
    /\ UNCHANGED gen

Live(h, algs) == handles[h].life = "live" /\ handles[h].alg \in algs

(* What becomes of the receiver when a method returns.  `&mut self` is    *)
(* borrowed: the handle lives on.  `self` is owned: it goes out of scope  *)
(* at the end of the method and Drop runs the native free.                *)
drop_in_place(hd) ==
    [hd    |-> [hd EXCEPT !.life = "dropped", !.frees = @ + 1,
                          !.st = [@ EXCEPT !.phase = "freed"]],
     calls |-> <<Call("Free", hd.alg, Zero, 0)>>]

keep(hd) == [hd |-> hd, calls |-> <<>>]

----------------------------------------------------------------------------
(* sha.rs: the hash and SHAKE handles.  The eleven types repeat one shape; *)
(* alg names the type.                                                     *)

\* the length handed on as it is, as if the native functions took a usize
len_as_usize(slice) == BLen(slice)

\* data.len() as u32
len_as_u32(slice) == as_u32(BLen(slice))

\* new() that hands out the MaybeUninit state as the allocation left it:
\* whatever bytes were there count as absorbed
new_uninit(h, alg, fault) ==
    /\ handles[h].life = "none"
    /\ alg \in HashAlgs
    /\ LET r == wc_Init(NoState, fault)
       IN  Return(h, "new", alg, <<>>, Zero,
                  IF r.rc # 0 THEN handles[h]
                  ELSE [NoHandle EXCEPT !.alg = alg, !.life = "live",
                                        !.st = [r.st EXCEPT !.buf = Fill(L(1))]],
                  status(r.rc), <<Call("Init", alg, Zero, r.rc)>>, <<>>)

\* new() that builds the struct without looking at the initializer's status
new_ignores_status(h, alg, fault) ==
    /\ handles[h].life = "none"
    /\ alg \in HashAlgs
    /\ LET r == wc_Init(NoState, fault)
       IN  Return(h, "new", alg, <<>>, Zero,
                  [NoHandle EXCEPT !.alg = alg, !.life = "live", !.st = r.st],
                  Ok, <<Call("Init", alg, Zero, r.rc)>>, <<>>)

\* new() that builds the struct before it tests the initializer's status:
\* on the error return the struct goes out of scope and Drop frees it
new_drops_on_error(h, alg, fault) ==
    /\ handles[h].life = "none"
    /\ alg \in HashAlgs
    /\ LET r == wc_Init(NoState, fault)
       IN  Return(h, "new", alg, <<>>, Zero,
                  IF r.rc # 0 THEN [handles[h] EXCEPT !.frees = @ + 1]
                  ELSE [NoHandle EXCEPT !.alg = alg, !.life = "live", !.st = r.st],
                  status(r.rc),
                  IF r.rc # 0
                  THEN <<Call("Init", alg, Zero, r.rc), Call("Free", alg, Zero, 0)>>
                  ELSE <<Call("Init", alg, Zero, r.rc)>>, <<>>)

\* SHA::new .. SHAKE256::new
new(h, alg, fault) ==
    /\ handles[h].life = "none"
    /\ alg \in HashAlgs
    /\ LET r == wc_Init(NoState, fault)
       IN  Return(h, "new", alg, <<>>, Zero,
                  IF r.rc # 0 THEN handles[h]
                  ELSE [NoHandle EXCEPT !.alg = alg, !.life = "live", !.st = r.st],
                  status(r.rc), <<Call("Init", alg, Zero, r.rc)>>, <<>>)

\* init that reports success without running the native initializer
init_skips_native(h, fault) ==
    /\ Live(h, HashAlgs)
    /\ Return(h, "init", handles[h].alg, <<>>, Zero, Restart(handles[h]), Ok,
              <<>>, <<>>)

\* init that frees the native state before it initializes it again
init_frees_first(h, fault) ==
    /\ Live(h, HashAlgs)
    /\ LET hd == handles[h]
           r  == wc_Init(hd.st, fault)
       IN  Return(h, "init", hd.alg, <<>>, Zero,
                  IF r.rc # 0 THEN [hd EXCEPT !.st = r.st, !.frees = @ + 1]
                  ELSE Restart([hd EXCEPT !.st = r.st, !.frees = @ + 1]),
                  status(r.rc),
                  <<Call("Free", hd.alg, Zero, 0),
                    Call("Init", hd.alg, Zero, r.rc)>>, <<>>)

\* SHA::init .. SHAKE256::init
init(h, fault) ==
    /\ Live(h, HashAlgs)
    /\ LET hd == handles[h]
           r  == wc_Init(hd.st, fault)
       IN  Return(h, "init", hd.alg, <<>>, Zero,
                  IF r.rc # 0 THEN [hd EXCEPT !.st = r.st]
                  ELSE Restart([hd EXCEPT !.st = r.st]),
                  status(r.rc), <<Call("Init", hd.alg, Zero, r.rc)>>, <<>>)

\* update that calls the native update a second time when the first call
\* reported an error
update_retries(h, data, fault) ==
    /\ Live(h, HashAlgs)
    /\ handles[h].feeds < MaxFeeds
    /\ LET hd        == handles[h]
           data_size == len_as_u32(data)
           r1        == wc_Update(hd.st, data, data_size, fault)
           r         == IF r1.rc # 0 THEN wc_Update(r1.st, data, data_size, 0)
                        ELSE r1
       IN  Return(h, "update", hd.alg, data, BLen(data),
                  IF r.rc # 0 THEN [hd EXCEPT !.st = r.st]
                  ELSE [hd EXCEPT !.st = r.st, !.fed = Concat(@, data),
                                  !.feeds = @ + 1],
                  status(r.rc),
                  IF r1.rc # 0
                  THEN <<Call("Update", hd.alg, data_size, r1.rc),
                         Call("Update", hd.alg, data_size, r.rc)>>
                  ELSE <<Call("Update", hd.alg, data_size, r.rc)>>, <<>>)

\* update with state hidden in the wrapper: a static owner that the first
\* handle takes; the updates of any other handle return Ok without handing
\* their data to the native state
update_static_owner(h, data, fault) ==
    /\ Live(h, HashAlgs)
    /\ handles[h].feeds < MaxFeeds
    /\ LET hd        == handles[h]
           data_size == IF h = 1 THEN len_as_u32(data) ELSE Zero
           r         == wc_Update(hd.st, data, data_size, fault)
       IN  Return(h, "update", hd.alg, data, BLen(data),
                  IF r.rc # 0 THEN [hd EXCEPT !.st = r.st]
                  ELSE [hd EXCEPT !.st = r.st, !.fed = Concat(@, data),
                                  !.feeds = @ + 1],
                  status(r.rc), <<Call("Update", hd.alg, data_size, r.rc)>>, <<>>)

\* SHA::update .. SHAKE256::update
update(h, data, fault) ==
    /\ Live(h, HashAlgs)
    /\ handles[h].feeds < MaxFeeds
    /\ LET hd        == handles[h]
           data_size == len_as_u32(data)
           r         == wc_Update(hd.st, data, data_size, fault)
       IN  Return(h, "update", hd.alg, data, BLen(data),
                  IF r.rc # 0 THEN [hd EXCEPT !.st = r.st]
                  ELSE [hd EXCEPT !.st = r.st, !.fed = Concat(@, data),
                                  !.feeds = @ + 1],
                  status(r.rc), <<Call("Update", hd.alg, data_size, r.rc)>>, <<>>)

\* the length check done on the length as a u32
digest_len_ok_u32(alg, hash_len) == as_u32(hash_len) = L(DIGEST_SIZE(alg))

\* hash.len() != Self::DIGEST_SIZE, negated
digest_len_ok(alg, hash_len) == hash_len = L(DIGEST_SIZE(alg))

\* finalize taking the receiver by value, as CMAC::finalize does
finalize_self_owned(hd) == drop_in_place(hd)

\* finalize(&mut self, ..): the receiver is borrowed
finalize_self(hd) == keep(hd)

\* SHA::finalize .. SHA3_512::finalize
finalize(h, hash_len, fault) ==
    /\ Live(h, FixedAlgs)
    /\ LET hd == handles[h]
           r  == wc_Final(hd.alg, hd.st, fault)
           e  == finalize_self(IF r.rc # 0 THEN [hd EXCEPT !.st = r.st]
                               ELSE Restart([hd EXCEPT !.st = r.st,
                                                       !.finalized = TRUE]))
       IN  IF ~digest_len_ok(hd.alg, hash_len)
           THEN Return(h, "finalize", hd.alg, <<>>, hash_len, finalize_self(hd).hd,
                       Err(BUFFER_E), finalize_self(hd).calls, Fill(hash_len))
           ELSE Return(h, "finalize", hd.alg, <<>>, hash_len, e.hd, status(r.rc),
                       <<Call("Final", hd.alg, Zero, r.rc)>> \o e.calls,
                       Overwrite(hash_len, r.out))

\* SHAKE finalize with a length check of its own: an empty buffer is refused
\* before the native call
SHAKE_finalize_checked(h, hash_len, fault) ==
    /\ Live(h, ShakeAlgs)
    /\ LET hd        == handles[h]
           hash_size == as_u32(hash_len)
           r         == wc_Shake_Final(hd.alg, hd.st, hash_size, fault)
       IN  IF hash_len = Zero
           THEN Return(h, "finalize", hd.alg, <<>>, hash_len, hd,
                       Err(BUFFER_E), <<>>, <<>>)
           ELSE Return(h, "finalize", hd.alg, <<>>, hash_len,
                       IF r.rc # 0 THEN [hd EXCEPT !.st = r.st]
                       ELSE Restart([hd EXCEPT !.st = r.st, !.finalized = TRUE]),
                       status(r.rc), <<Call("Final", hd.alg, hash_size, r.rc)>>,
                       Overwrite(hash_len, r.out))

\* SHAKE128::finalize, SHAKE256::finalize
SHAKE_finalize(h, hash_len, fault) ==
    /\ Live(h, ShakeAlgs)
    /\ LET hd        == handles[h]
           hash_size == as_u32(hash_len)
           r         == wc_Shake_Final(hd.alg, hd.st, hash_size, fault)
       IN  Return(h, "finalize", hd.alg, <<>>, hash_len,
                  IF r.rc # 0 THEN [hd EXCEPT !.st = r.st]
                  ELSE Restart([hd EXCEPT !.st = r.st, !.finalized = TRUE]),
                  status(r.rc), <<Call("Final", hd.alg, hash_size, r.rc)>>,
                  Overwrite(hash_len, r.out))

\* SHAKE128::absorb, SHAKE256::absorb
absorb(h, data, fault) ==
    /\ Live(h, ShakeAlgs)
    /\ handles[h].feeds < MaxFeeds
    /\ LET hd        == handles[h]
           data_size == len_as_u32(data)
           r         == wc_Shake_Absorb(hd.st, data, data_size, fault)
       IN  Return(h, "absorb", hd.alg, data, BLen(data),
                  IF r.rc # 0 THEN [hd EXCEPT !.st = r.st]
                  ELSE [hd EXCEPT !.st = r.st, !.fed = Concat(@, data),
                                  !.feeds = @ + 1, !.absorbs = @ + 1],
                  status(r.rc), <<Call("Absorb", hd.alg, data_size, r.rc)>>, <<>>)

\* the length check with an empty buffer refused as well
squeeze_len_ok_nonempty(alg, dout_len) ==
    /\ as_u32(dout_len) # Zero
    /\ u32_rem(as_u32(dout_len), SQUEEZE_BLOCK_SIZE(alg)) = 0

\* dout_size % (Self::SQUEEZE_BLOCK_SIZE as u32) != 0, negated
squeeze_len_ok(alg, dout_len) ==
    u32_rem(as_u32(dout_len), SQUEEZE_BLOCK_SIZE(alg)) = 0

\* one block asked for whatever the buffer holds
squeeze_n_blocks_one(alg, dout_len) == L(1)

\* (dout_size / (Self::SQUEEZE_BLOCK_SIZE as u32)) as u32
squeeze_n_blocks(alg, dout_len) ==
    u32_div(as_u32(dout_len), SQUEEZE_BLOCK_SIZE(alg))

\* SHAKE128::squeeze_blocks, SHAKE256::squeeze_blocks
squeeze_blocks(h, dout_len, fault) ==
    /\ Live(h, ShakeAlgs)
    /\ LET hd       == handles[h]
           n_blocks == squeeze_n_blocks(hd.alg, dout_len)
           r        == wc_Shake_SqueezeBlocks(hd.alg, hd.st, n_blocks, fault)
       IN  /\ hd.st.squeezed + ToInt(n_blocks) <= MaxBlocks
           /\ IF ~squeeze_len_ok(hd.alg, dout_len)
              THEN Return(h, "squeeze_blocks", hd.alg, <<>>, dout_len, hd,
                          Err(BUFFER_E), <<>>, Fill(dout_len))
              ELSE Return(h, "squeeze_blocks", hd.alg, <<>>, dout_len,
                          IF r.rc # 0 THEN [hd EXCEPT !.st = r.st]
                          ELSE [hd EXCEPT !.st = r.st,
                                          !.given = @ + ToInt(n_blocks)],
                          status(r.rc),
                          <<Call("SqueezeBlocks", hd.alg, n_blocks, r.rc)>>,
                          Overwrite(dout_len, r.out))

\* a handle type without a Drop impl: nothing is freed at scope exit
drop_without_free(h) ==
    /\ Live(h, Algs)
    /\ Return(h, "drop", handles[h].alg, <<>>, Zero,
              [handles[h] EXCEPT !.life = "dropped"], Ok, <<>>, <<>>)

\* impl Drop for SHA .. SHAKE256, impl Drop for CMAC: the owner lets the
\* handle go out of scope
drop(h) ==
    /\ Live(h, Algs)
    /\ LET e == drop_in_place(handles[h])
       IN  Return(h, "drop", handles[h].alg, <<>>, Zero, e.hd, Ok, e.calls, <<>>)

----------------------------------------------------------------------------
(* Calls in progress.  Between the moment a caller enters a method and the *)
(* moment the method returns, the caller holds the receiver: `&mut self`   *)
(* (init, update, absorb, finalize, squeeze_blocks, Drop::drop) and `self` *)
(* (CMAC::finalize) are exclusive, so the call can start only when no      *)
(* other call holds the handle.                                            *)

Callers == {1, 2}

Held(t, op) == [t |-> t, op |-> op]

\* the methods of a handle of type alg, the release on drop included
Methods(alg) ==
    CASE alg \in FixedAlgs -> {"init", "update", "finalize", "drop"}
      [] alg \in ShakeAlgs -> {"init", "update", "absorb", "finalize",
                               "squeeze_blocks", "drop"}
      [] alg = "CMAC"      -> {"update", "finalize", "drop"}
      [] OTHER             -> {}

\* a `&self` receiver: any number of calls may hold the handle at once
borrow_shared(hd) == TRUE

\* a `&mut self` (or `self`) receiver: nothing else holds the handle
borrow_mut(hd) == hd.busy = {}

\* caller t is inside a call of method op on handle h
InCall(t, h, op) == Held(t, op) \in handles[h].busy

\* caller t, not inside any call, enters method op of handle h
call(t, h, op) ==
    /\ handles[h].life = "live"
    /\ op \in Methods(handles[h].alg)
    /\ \A g \in DOMAIN handles : \A b \in handles[g].busy : b.t # t
    /\ borrow_mut(handles[h])
    /\ handles' = [handles EXCEPT ![h].busy = @ \cup {Held(t, op)}]
    /\ UNCHANGED <<last, gen>>

----------------------------------------------------------------------------
(* cmac.rs                                                                  *)

\* CMAC::new
CMAC_new(h, key, fault) ==
    /\ handles[h].life = "none"
    /\ LET key_size == len_as_u32(key)
           r        == wc_InitCmac(NoState, key, key_size, fault)
       IN  /\ handles' = [handles EXCEPT ![h] =
                            IF r.rc # 0 THEN @
                            ELSE [NoHandle EXCEPT !.alg = "CMAC", !.life = "live",
                                                  !.st = r.st]]
           /\ last' = [NoLast EXCEPT !.op = "new", !.h = h, !.alg = "CMAC",
                                     !.key = key, !.res = status(r.rc),
                                     !.calls = <<Call("Init", "CMAC", key_size, r.rc)>>,
                                     !.pre = handles[h]]
           /\ UNCHANGED gen

\* update that reports success without handing the data to the native state
CMAC_update_skips_native(h, data, fault) ==
    /\ Live(h, {"CMAC"})
    /\ handles[h].feeds < MaxFeeds
    /\ LET hd == handles[h]
       IN  Return(h, "update", "CMAC", data, BLen(data),
                  [hd EXCEPT !.fed = Concat(@, data), !.feeds = @ + 1],
                  Ok, <<>>, <<>>)

\* CMAC::update
CMAC_update(h, data, fault) ==
    /\ Live(h, {"CMAC"})
    /\ handles[h].feeds < MaxFeeds
    /\ LET hd        == handles[h]
           data_size == len_as_u32(data)
           r         == wc_Update(hd.st, data, data_size, fault)
       IN  Return(h, "update", "CMAC", data, BLen(data),
                  IF r.rc # 0 THEN [hd EXCEPT !.st = r.st]
                  ELSE [hd EXCEPT !.st = r.st, !.fed = Concat(@, data),
                                  !.feeds = @ + 1],
                  status(r.rc), <<Call("Update", "CMAC", data_size, r.rc)>>, <<>>)

\* finalize taking the receiver by reference, as the hash types do
CMAC_finalize_self_borrowed(hd) == keep(hd)

\* finalize(mut self, ..): the receiver is owned, and dropped on return
CMAC_finalize_self(hd) == drop_in_place(hd)

\* CMAC::finalize
CMAC_finalize(h, dout_len, fault) ==
    /\ Live(h, {"CMAC"})
    /\ LET hd        == handles[h]
           dout_size == as_u32(dout_len)
           r         == wc_CmacFinalNoFree(hd.st, dout_size, fault)
           e         == CMAC_finalize_self([hd EXCEPT !.st = r.st])
       IN  Return(h, "finalize", "CMAC", <<>>, dout_len, e.hd, status(r.rc),
                  <<Call("FinalNoFree", "CMAC", dout_size, r.rc)>> \o e.calls,
                  Overwrite(dout_len, r.out))

\* generate computed on the live handles instead of a state of its own: it
\* re-keys them and drops what they had been fed
CMAC_generate_on_handles(key, data, dout_len) ==
    LET key_size  == len_as_u32(key)
        data_size == len_as_u32(data)
        dout_size == as_u32(dout_len)
        r   == wc_AesCmacGenerate(dout_size, data, data_size, key, key_size)
        out == Overwrite(dout_len, r.out)
    IN  /\ last' = [NoLast EXCEPT !.op = "generate", !.alg = "CMAC", !.key = key,
                                  !.data = data, !.len = dout_len,
                                  !.res = status(r.rc),
                                  !.calls = <<Call("AesCmacGenerate", "CMAC",
                                                   dout_size, r.rc)>>,
                                  !.out = out]
        /\ gen' = IF r.rc # 0 THEN gen
                  ELSE [ok |-> TRUE, key |-> key, data |-> data, len |-> dout_len,
                        out |-> out]
        /\ handles' = [h \in DOMAIN handles |->
                         IF handles[h].life = "live"
                         THEN Restart([handles[h] EXCEPT
                                         !.st = FreshState(Take(key, key_size))])
                         ELSE handles[h]]

\* CMAC::generate
CMAC_generate(key, data, dout_len) ==
    LET key_size  == len_as_u32(key)
        data_size == len_as_u32(data)
        dout_size == as_u32(dout_len)
        r   == wc_AesCmacGenerate(dout_size, data, data_size, key, key_size)
        out == Overwrite(dout_len, r.out)
    IN  /\ last' = [NoLast EXCEPT !.op = "generate", !.alg = "CMAC", !.key = key,
                                  !.data = data, !.len = dout_len,
                                  !.res = status(r.rc),
                                  !.calls = <<Call("AesCmacGenerate", "CMAC",
                                                   dout_size, r.rc)>>,
                                  !.out = out]
        \* the caller keeps the tag of a generate that succeeded
        /\ gen' = IF r.rc # 0 THEN gen
                  ELSE [ok |-> TRUE, key |-> key, data |-> data, len |-> dout_len,
                        out |-> out]
        /\ UNCHANGED handles

\* CMAC::verify; check is [segs, len, flip]
CMAC_verify(key, data, check) ==
    LET key_size   == len_as_u32(key)
        data_size  == len_as_u32(data)
        check_size == as_u32(check.len)
        r == wc_AesCmacVerify(check, check_size, data, data_size, key, key_size)
    IN  /\ last' = [NoLast EXCEPT !.op = "verify", !.alg = "CMAC", !.key = key,
                                  !.data = data, !.len = check.len,
                                  !.flip = check.flip,
                                  !.res = verify_status(r.rc),
                                  !.calls = <<Call("AesCmacVerify", "CMAC",
                                                   check_size, r.rc)>>,
                                  !.out = check.segs]
        /\ UNCHANGED <<handles, gen>>

----------------------------------------------------------------------------
(* The inputs the owner of the handles may pass.                            *)

Two32 == <<1, 0, 0>>

A     == Run(0, L(1))
B     == Run(1, L(1))
Big   == Run(0, LenAdd(Two32, L(1)))

DataSet == {<<>>, A, B, Big}

Key16 == Run(7, L(16))
Key5  == Run(7, L(5))
Keys  == {Key16, Key5}

MsgSet == {A, Big}

\* output buffers for the fixed-digest finalize
HashLens(alg) ==
    {Zero, L(DIGEST_SIZE(alg) - 1), L(DIGEST_SIZE(alg)), L(DIGEST_SIZE(alg) + 1),
     LenAdd(Two32, L(DIGEST_SIZE(alg)))}

\* output buffers for the SHAKE finalize
XofLens == {Zero, L(32), LenAdd(Two32, L(32))}

\* output buffers for squeeze_blocks: none, one and two blocks, a byte short
\* of a block, and 2^32 bytes more than a block
SqueezeLens(alg) ==
    {Zero, L(SQUEEZE_BLOCK_SIZE(alg)), L(2 * SQUEEZE_BLOCK_SIZE(alg)),
     L(SQUEEZE_BLOCK_SIZE(alg) - 1), LenAdd(Two32, L(SQUEEZE_BLOCK_SIZE(alg)))}

\* output buffers for the CMAC tag
TagLens == {L(16), L(8), L(3), L(17), LenAdd(Two32, L(16))}

Buffer(segs, len, flip) == [segs |-> segs, len |-> len, flip |-> flip]

\* the tags verify is given: the one the last generate wrote, that tag with
\* a bit of its first or of its last byte flipped, sixteen zero bytes, and
\* an empty slice
CheckSet ==
    {Buffer(Run(0, L(16)), L(16), NoFlip), Buffer(<<>>, Zero, NoFlip)}
    \cup (IF gen.ok
          THEN {Buffer(gen.out, gen.len, f) :
                    f \in {NoFlip, Zero, LenSub(gen.len, L(1))}}
          ELSE {})

Next ==
    \/ \E h \in DOMAIN handles, alg \in HashAlgs, f \in Faults : new(h, alg, f)
    \/ \E h \in DOMAIN handles, f \in Faults : init(h, f)
    \/ \E h \in DOMAIN handles, d \in DataSet, f \in Faults : update(h, d, f)
    \/ \E h \in DOMAIN handles, f \in Faults :
          \E n \in HashLens(IF handles[h].alg \in FixedAlgs
                            THEN handles[h].alg ELSE "SHA") : finalize(h, n, f)
    \/ \E h \in DOMAIN handles, n \in XofLens, f \in Faults : SHAKE_finalize(h, n, f)
    \/ \E h \in DOMAIN handles, d \in DataSet, f \in Faults : absorb(h, d, f)
    \/ \E h \in DOMAIN handles, f \in Faults :
          \E n \in SqueezeLens(IF handles[h].alg \in ShakeAlgs
                               THEN handles[h].alg ELSE "SHAKE128") :
              squeeze_blocks(h, n, f)
    \/ \E h \in DOMAIN handles : drop(h)
    \/ \E h \in DOMAIN handles, k \in Keys, f \in Faults : CMAC_new(h, k, f)
    \/ \E h \in DOMAIN handles, d \in DataSet, f \in Faults : CMAC_update(h, d, f)
    \/ \E h \in DOMAIN handles, n \in TagLens, f \in Faults : CMAC_finalize(h, n, f)

\* the handles of every type
Spec == Init /\ [][Next]_vars

NextCmac ==
    \/ \E h \in DOMAIN handles, k \in Keys, f \in Faults : CMAC_new(h, k, f)
    \/ \E h \in DOMAIN handles, d \in DataSet, f \in Faults : CMAC_update(h, d, f)
    \/ \E h \in DOMAIN handles, n \in TagLens, f \in Faults : CMAC_finalize(h, n, f)
    \/ \E h \in DOMAIN handles : drop(h)
    \/ \E k \in Keys, d \in MsgSet, n \in TagLens : CMAC_generate(k, d, n)
    \/ \E k \in Keys, d \in MsgSet, c \in CheckSet : CMAC_verify(k, d, c)

\* cmac.rs alone: the CMAC handle and the one-shot functions
SpecCmac == Init /\ [][NextCmac]_vars

\* one type of each shape (fixed digest, SHAKE, CMAC) with every operation
\* that turns a native status into a result, the one-shot functions included
AllAlgs  == {"SHA256", "SHAKE128"}
AllData  == {<<>>, A}
AllTags  == {L(16), L(3)}

NextAll ==
    \/ \E h \in DOMAIN handles, alg \in AllAlgs, f \in Faults : new(h, alg, f)
    \/ \E h \in DOMAIN handles, f \in Faults : init(h, f)
    \/ \E h \in DOMAIN handles, d \in AllData, f \in Faults : update(h, d, f)
    \/ \E h \in DOMAIN handles, n \in HashLens("SHA256"), f \in Faults :
          finalize(h, n, f)
    \/ \E h \in DOMAIN handles, n \in XofLens, f \in Faults : SHAKE_finalize(h, n, f)
    \/ \E h \in DOMAIN handles, d \in AllData, f \in Faults : absorb(h, d, f)
    \/ \E h \in DOMAIN handles, n \in SqueezeLens("SHAKE128"), f \in Faults :
          squeeze_blocks(h, n, f)
    \/ \E h \in DOMAIN handles : drop(h)
    \/ \E h \in DOMAIN handles, k \in Keys, f \in Faults : CMAC_new(h, k, f)
    \/ \E h \in DOMAIN handles, d \in AllData, f \in Faults : CMAC_update(h, d, f)
    \/ \E h \in DOMAIN handles, n \in AllTags, f \in Faults : CMAC_finalize(h, n, f)
    \/ \E k \in Keys, d \in {A}, n \in AllTags : CMAC_generate(k, d, n)
    \/ \E k \in Keys, d \in {A}, c \in CheckSet : CMAC_verify(k, d, c)

SpecAll == Init /\ [][NextAll]_vars

\* the operations that hand a slice length to the native library as a u32,
\* with slices on both sides of 2^32 bytes
LenData == {A, Big}
LenTags == {L(16), LenAdd(Two32, L(16))}

NextLen ==
    \/ \E h \in DOMAIN handles, f \in Faults : new(h, "SHAKE128", f)
    \/ \E h \in DOMAIN handles, d \in LenData, f \in Faults : update(h, d, f)
    \/ \E h \in DOMAIN handles, d \in LenData, f \in Faults : absorb(h, d, f)
    \/ \E h \in DOMAIN handles, n \in XofLens, f \in Faults : SHAKE_finalize(h, n, f)
    \/ \E h \in DOMAIN handles : drop(h)
    \/ \E h \in DOMAIN handles, f \in Faults : CMAC_new(h, Key16, f)
    \/ \E h \in DOMAIN handles, d \in LenData, f \in Faults : CMAC_update(h, d, f)
    \/ \E h \in DOMAIN handles, n \in LenTags, f \in Faults : CMAC_finalize(h, n, f)
    \/ \E d \in LenData, n \in LenTags : CMAC_generate(Key16, d, n)
    \/ \E d \in LenData, c \in CheckSet : CMAC_verify(Key16, d, c)

SpecLen == Init /\ [][NextLen]_vars

\* one hash handle from new() to drop with its initializer runs counted,
\* and at most MaxInits calls of init()
MaxInits == 3

InitCount ==
    /\ handles = [h \in {1} |-> [NoHandle EXCEPT !.tally = [inits |-> 0, ran |-> 0]]]
    /\ last = NoLast
    /\ gen = NoGen

CountAlgs == {"SHA", "SHAKE256"}

NextCount ==
    \/ \E h \in DOMAIN handles, alg \in CountAlgs, f \in Faults : new(h, alg, f)
    \/ \E h \in DOMAIN handles, f \in Faults :
          handles[h].tally.inits < MaxInits /\ init(h, f)
    \/ \E h \in DOMAIN handles, f \in Faults : update(h, A, f)
    \/ \E h \in DOMAIN handles, f \in Faults : finalize(h, L(WC_SHA_DIGEST_SIZE), f)
    \/ \E h \in DOMAIN handles, f \in Faults : SHAKE_finalize(h, L(32), f)
    \/ \E h \in DOMAIN handles : drop(h)

SpecCount == InitCount /\ [][NextCount]_vars

\* two handles side by side, of one type or of two, with slices short
\* enough to tell whose bytes went where
InitTwo ==
    /\ handles = [h \in {1, 2} |-> NoHandle]
    /\ last = NoLast
    /\ gen = NoGen

TwoData == {A, B}

NextTwo ==
    \/ \E h \in DOMAIN handles, f \in Faults : new(h, "SHA256", f)
    \/ \E h \in DOMAIN handles, f \in Faults : init(h, f)
    \/ \E h \in DOMAIN handles, d \in TwoData, f \in Faults : update(h, d, f)
    \/ \E h \in DOMAIN handles, f \in Faults :
          finalize(h, L(WC_SHA256_DIGEST_SIZE), f)
    \/ \E h \in DOMAIN handles : drop(h)
    \/ \E h \in DOMAIN handles, f \in Faults : CMAC_new(h, Key16, f)
    \/ \E h \in DOMAIN handles, d \in TwoData, f \in Faults : CMAC_update(h, d, f)
    \/ \E h \in DOMAIN handles, f \in Faults : CMAC_finalize(h, L(16), f)

SpecTwo == InitTwo /\ [][NextTwo]_vars

\* two callers and one handle, each call in two steps: the caller enters
\* the method (call), the method does its work and returns
OwnAlgs == {"SHA256", "SHAKE128"}

NextOwn ==
    \/ \E h \in DOMAIN handles, alg \in OwnAlgs, f \in Faults : new(h, alg, f)
    \/ \E h \in DOMAIN handles, k \in Keys, f \in Faults : CMAC_new(h, k, f)
    \/ \E t \in Callers, h \in DOMAIN handles :
          \E op \in Methods(handles[h].alg) : call(t, h, op)
    \/ \E t \in Callers, h \in DOMAIN handles, f \in Faults :
          InCall(t, h, "init") /\ init(h, f)
    \/ \E t \in Callers, h \in DOMAIN handles, f \in Faults :
          InCall(t, h, "update") /\ update(h, A, f)
    \/ \E t \in Callers, h \in DOMAIN handles, f \in Faults :
          InCall(t, h, "finalize") /\ finalize(h, L(WC_SHA256_DIGEST_SIZE), f)
    \/ \E t \in Callers, h \in DOMAIN handles, f \in Faults :
          InCall(t, h, "finalize") /\ SHAKE_finalize(h, L(32), f)
    \/ \E t \in Callers, h \in DOMAIN handles, f \in Faults :
          InCall(t, h, "absorb") /\ absorb(h, A, f)
    \/ \E t \in Callers, h \in DOMAIN handles, f \in Faults :
          InCall(t, h, "squeeze_blocks")
              /\ squeeze_blocks(h, L(WC_SHA3_128_BLOCK_SIZE), f)
    \/ \E t \in Callers, h \in DOMAIN handles, f \in Faults :
          InCall(t, h, "update") /\ CMAC_update(h, A, f)
    \/ \E t \in Callers, h \in DOMAIN handles, f \in Faults :
          InCall(t, h, "finalize") /\ CMAC_finalize(h, L(16), f)
    \/ \E t \in Callers, h \in DOMAIN handles :
          InCall(t, h, "drop") /\ drop(h)

SpecOwn == Init /\ [][NextOwn]_vars

----------------------------------------------------------------------------
(* The claims.  `last` is the call that returned last: its arguments, its  *)
(* result, the native calls it made, the caller's buffer after it, and the *)
(* handle before it (pre).                                                 *)

Post == handles[last.h]

FreeCalls(calls) == Cardinality({i \in DOMAIN calls : calls[i].fn = "Free"})

C1_WrongLength ==
    /\ last.op = "finalize"
    /\ last.alg \in FixedAlgs
    /\ last.len # L(DIGEST_SIZE(last.alg))

\* C1: on each of the nine fixed-digest handles, finalize with a buffer
\* whose length is not DIGEST_SIZE returns Err(BUFFER_E), makes no native
\* call, and leaves the caller's buffer and the native state as they were.
C1_FinalizeRejectsWrongLength ==
    C1_WrongLength =>
        /\ last.res = Err(BUFFER_E)
        /\ last.calls = <<>>
        /\ last.out = Fill(last.len)
        /\ Post.st = last.pre.st

\* a SHA3_512 finalize, after data was fed, on a buffer of 2^32 + 64 bytes
C1_Witness ==
    /\ C1_WrongLength
    /\ last.alg = "SHA3_512"
    /\ last.len = LenAdd(Two32, L(WC_SHA3_512_DIGEST_SIZE))
    /\ last.pre.feeds > 0

C2_NotMultiple ==
    /\ last.op = "squeeze_blocks"
    /\ LenMod(last.len, SQUEEZE_BLOCK_SIZE(last.alg)) # 0

\* C2: squeeze_blocks on SHAKE128 and SHAKE256 returns Err(BUFFER_E) and
\* makes no native call whenever the length of the buffer is not a multiple
\* of SQUEEZE_BLOCK_SIZE, lengths of 2^32 bytes and more included.
C2_SqueezeRejectsNonMultiple ==
    C2_NotMultiple => last.res = Err(BUFFER_E) /\ last.calls = <<>>

\* C3: CMAC::verify gives Err(rc) for a native status rc < 0 and Ok(rc == 0)
\* for rc >= 0: a negative status is never Ok(false), a positive one never
\* an Err.
C3_VerifyStatus ==
    last.op = "verify" =>
        LET rc == last.calls[1].rc
        IN  /\ rc < 0 => last.res = Err(rc)
            /\ rc >= 0 => last.res = OkBool(rc = 0)
            /\ last.res = OkBool(FALSE) => rc > 0
            /\ ~last.res.ok => rc < 0

\* verify on a tag that does not match: positive status, Ok(false)
C3_Witness ==
    /\ last.op = "verify"
    /\ last.calls[1].rc > 0
    /\ last.res = OkBool(FALSE)

\* C4: a handle new() returned has its native free run exactly once: not
\* while it lives, once when it is gone, and by no call but the one that
\* ends its life, whatever calls were made on it and however they ended.
C4_FreedExactlyOnce ==
    /\ \A h \in DOMAIN handles :
          /\ handles[h].life \in {"none", "live"} => handles[h].frees = 0
          /\ handles[h].life = "dropped" => handles[h].frees = 1
    /\ last.h \in DOMAIN handles =>
          /\ FreeCalls(last.calls) = Post.frees - last.pre.frees
          /\ FreeCalls(last.calls) = 1 <=>
                (last.pre.life = "live" /\ Post.life = "dropped")

\* a SHAKE handle dropped after it absorbed and squeezed
C4_Witness ==
    /\ last.op = "drop"
    /\ last.alg \in ShakeAlgs
    /\ last.pre.absorbs > 0
    /\ last.pre.given > 0
    /\ Post.life = "dropped"
    /\ Post.frees = 1

\* C5: CMAC::finalize ends the handle whether it returns Ok or Err: it calls
\* wc_CmacFinalNoFree and then wc_CmacFree, once each and in that order, and
\* every update and finalize runs on a handle that was still alive.
C5_CmacFinalizeTerminal ==
    /\ (last.op = "finalize" /\ last.alg = "CMAC") =>
          /\ Post.life = "dropped"
          /\ Post.frees = 1
          /\ Len(last.calls) = 2
          /\ last.calls[1].fn = "FinalNoFree"
          /\ last.calls[2].fn = "Free"
    /\ (last.op \in {"update", "finalize"} /\ last.alg = "CMAC") =>
          /\ last.pre.life = "live"
          /\ last.pre.frees = 0
          /\ last.pre.st.phase \notin {"finalized", "freed"}

\* a CMAC finalize that returned Err after data was fed
C5_Witness ==
    /\ last.op = "finalize"
    /\ last.alg = "CMAC"
    /\ ~last.res.ok
    /\ last.pre.feeds > 0
    /\ Post.life = "dropped"


\* C6: a successful init() on a hash or SHAKE handle leaves the native state
\* that new() gives a fresh handle, whatever the state before (fresh,
\* updated, absorbed, squeezed or finalized), so what follows depends only
\* on the data fed after it.
C6_InitRestarts ==
    (last.op = "init" /\ last.res.ok) =>
        /\ Post.st = FreshState(<<>>)
        /\ Post.st.buf = <<>> /\ Post.st.squeezed = 0
        /\ Post.fed = <<>>
        /\ last.calls = <<Call("Init", last.alg, Zero, 0)>>

\* init() on a SHAKE handle that had absorbed data and squeezed blocks
C6_Witness ==
    /\ last.op = "init"
    /\ last.res.ok
    /\ last.pre.st.phase = "squeezing"
    /\ last.pre.st.buf # <<>>
    /\ last.pre.st.squeezed > 0

\* C7: finalize on a hash or SHAKE handle does not consume it: when it
\* returns, Ok or Err, the handle is alive, the native free has not run, and
\* init, update and finalize go on being served on it: an init after a
\* finalize gives the fresh state again.
C7_HashFinalizeKeepsHandle ==
    /\ (last.op = "finalize" /\ last.alg \in HashAlgs) =>
          /\ Post.life = "live"
          /\ Post.frees = 0
          /\ FreeCalls(last.calls) = 0
          /\ Post.st.phase # "freed"
    /\ (last.op = "init" /\ last.res.ok /\ last.pre.finalized) =>
          Post.st = FreshState(<<>>)
    /\ (last.op \in {"init", "update", "finalize"} /\ last.alg \in HashAlgs
            /\ last.pre.finalized) =>
          last.pre.life = "live" /\ Len(last.calls) <= 1

\* the second computation on one handle: a finalize that succeeds on data
\* fed after an earlier finalize
C7_Witness ==
    /\ last.op = "finalize"
    /\ last.alg \in FixedAlgs
    /\ last.res.ok
    /\ last.pre.finalized
    /\ last.pre.feeds > 0
    /\ Post.life = "live"

\* what a finalize writes for the bytes `data`, by the algorithm
Ideal(alg, key, data, len) ==
    CASE alg \in FixedAlgs -> <<Seg(DigestTerm(alg, data), L(DIGEST_SIZE(alg)))>>
      [] alg \in ShakeAlgs -> Norm(<<Seg(XofTerm(alg, data, 0), as_u32(len))>>)
      [] alg = "CMAC"      -> <<Seg(TagTerm(key, data), as_u32(len))>>

C8_Finalized ==
    /\ last.op = "finalize"
    /\ last.res.ok
    /\ last.pre.absorbs = 0
    /\ last.pre.given = 0

\* C8: the output of finalize depends only on the concatenation of the
\* slices passed to update since the initialization, not on how the bytes
\* were split into calls: it is the digest (tag) of that concatenation.
C8_UpdateSplitIndependent ==
    C8_Finalized =>
        Take(last.out, as_u32(last.len))
            = Take(Ideal(last.alg, last.pre.st.key, last.pre.fed, last.len),
                   as_u32(last.len))

\* C9: successive squeeze_blocks calls continue one output stream: a call
\* with a buffer of k blocks (k = 1, 2) writes the blocks that follow the
\* ones given out before it, so two calls of one block write what one call
\* of two blocks writes.
C9_SqueezeContinues ==
    \A k \in 1..2 :
        (/\ last.op = "squeeze_blocks"
         /\ last.res.ok
         /\ last.len = L(k * SQUEEZE_BLOCK_SIZE(last.alg))) =>
            /\ last.out = [i \in 1..k |->
                             Seg(BlockTerm(last.alg, last.pre.st.buf,
                                           last.pre.given + i - 1),
                                 L(SQUEEZE_BLOCK_SIZE(last.alg)))]
            /\ Post.given = last.pre.given + k
            /\ Post.st.buf = last.pre.st.buf

\* the second of two one-block squeezes after an absorb
C9_Witness ==
    /\ last.op = "squeeze_blocks"
    /\ last.res.ok
    /\ last.len = L(SQUEEZE_BLOCK_SIZE(last.alg))
    /\ last.pre.absorbs = 1
    /\ last.pre.given = 1
    /\ last.out = <<Seg(BlockTerm(last.alg, last.pre.st.buf, 1),
                        L(SQUEEZE_BLOCK_SIZE(last.alg)))>>

C10_SameTag ==
    /\ last.op = "verify"
    /\ gen.ok
    /\ last.key = gen.key
    /\ last.data = gen.data
    /\ last.out = gen.out
    /\ last.len = gen.len

\* C10: where generate succeeded with tag t, verify with the same key,
\* message and t returns Ok(true), and verify with the same key and message
\* and t with one bit flipped returns Ok(false).
C10_GenerateThenVerify ==
    C10_SameTag =>
        /\ last.flip = NoFlip => last.res = OkBool(TRUE)
        /\ last.flip # NoFlip => last.res = OkBool(FALSE)

C11_FreshFinalize ==
    /\ last.op = "finalize"
    /\ last.alg \in HashAlgs
    /\ last.pre.feeds = 0 /\ last.pre.absorbs = 0 /\ last.pre.given = 0
    /\ ~last.pre.finalized
    /\ last.alg \in FixedAlgs => last.len = L(DIGEST_SIZE(last.alg))

\* C11: on each of the eleven hash and SHAKE handles, finalize on a handle
\* that has been fed nothing since new() makes one native call and returns
\* its status; when that status is 0 it returns Ok and the bytes written are
\* the digest of the empty input: DIGEST_SIZE bytes on a fixed-digest
\* handle, hash.len() as u32 bytes of XOF output on a SHAKE handle.
C11_EmptyInputDigest ==
    C11_FreshFinalize =>
        /\ Len(last.calls) = 1
        /\ last.calls[1].fn = "Final"
        /\ last.res = status(last.calls[1].rc)
        /\ last.calls[1].rc = 0 =>
              /\ last.res = Ok
              /\ last.alg \in FixedAlgs =>
                    last.out = <<Seg(DigestTerm(last.alg, <<>>),
                                     L(DIGEST_SIZE(last.alg)))>>
              /\ last.alg \in ShakeAlgs =>
                    last.out = Overwrite(last.len,
                                   Norm(<<Seg(XofTerm(last.alg, <<>>, 0),
                                              as_u32(last.len))>>))

\* new() and then at once finalize, SHA384 and 48 bytes: the handle before
\* the call is the one new() returned
C11_Witness ==
    /\ C11_FreshFinalize
    /\ last.alg = "SHA384"
    /\ last.res = Ok
    /\ last.pre = [NoHandle EXCEPT !.alg = "SHA384", !.life = "live",
                                   !.st = FreshState(<<>>)]

\* C12: a handle exists only after its native initializer returned 0: new()
\* makes that one call, and on a nonzero status returns Err and leaves no
\* handle; so every native update, absorb, final and squeeze call is made on
\* a live handle whose native state was initialized and not freed.
C12_InitializedBeforeUse ==
    /\ \A h \in DOMAIN handles :
          handles[h].life = "live" => handles[h].st.phase # "uninitialized"
    /\ last.op = "new" =>
          /\ Len(last.calls) = 1
          /\ last.calls[1].fn = "Init"
          /\ last.pre.life = "none"
          /\ last.calls[1].rc # 0 =>
                last.res = Err(last.calls[1].rc) /\ Post.life = "none"
          /\ last.calls[1].rc = 0 => last.res = Ok /\ Post.life = "live"
    /\ (last.op \in {"update", "absorb", "finalize", "squeeze_blocks"}
            /\ last.calls # <<>>) =>
          /\ last.pre.life = "live"
          /\ last.pre.st.phase \notin {"uninitialized", "freed"}

\* SHA256::new() whose native initializer failed: Err, and no handle
C12_Witness ==
    /\ last.op = "new"
    /\ last.alg = "SHA256"
    /\ last.calls[1].rc = MEMORY_E
    /\ last.res = Err(MEMORY_E)
    /\ Post.life = "none"

C13_NativeCallMade ==
    /\ last.op \in {"new", "init", "update", "absorb", "finalize",
                     "squeeze_blocks", "generate"}
    /\ last.calls # <<>>
    /\ last.calls[1].fn # "Free"

\* C13: for new, init, update, absorb, finalize, squeeze_blocks and
\* generate, when the native call is made the result is Ok exactly when its
\* status is 0 and is otherwise Err of that same status.
C13_StatusVerbatim ==
    C13_NativeCallMade =>
        LET rc == last.calls[1].rc
        IN  /\ last.res.ok <=> rc = 0
            /\ rc = 0 => last.res = Ok
            /\ rc # 0 => last.res = Err(rc)
            /\ \A i \in 2..Len(last.calls) : last.calls[i].fn = "Free"

\* generate with a key of 5 bytes: the native BAD_FUNC_ARG comes back as it is
C13_Witness ==
    /\ C13_NativeCallMade
    /\ last.op = "generate"
    /\ last.key = Key5
    /\ last.calls[1].rc = BAD_FUNC_ARG
    /\ last.res = Err(BAD_FUNC_ARG)

C14_Ops == {"init", "update", "absorb", "finalize", "squeeze_blocks"}

\* the call that returned last was on a hash or SHAKE handle and gave Err
C14_Failed ==
    /\ last.op \in C14_Ops
    /\ last.alg \in HashAlgs
    /\ ~last.res.ok

\* ... and the Err was the wrapper's own length check
C14_CheckFailed == C14_Failed /\ last.calls = <<>>

C14_HandleKept ==
    /\ C14_Failed =>
          Post.life = "live" /\ Post.frees = 0 /\ Post.st.phase # "freed"
    /\ C14_CheckFailed => Post.st = last.pre.st /\ Post.fed = last.pre.fed

\* the next call is made on the handle the failed call was made on
C14_NextOnSameHandle == last'.h = last.h /\ last'.op \in C14_Ops

\* a call that stopped at its length check: finalize of a fixed-digest type
\* on a length that is not DIGEST_SIZE, squeeze_blocks on one whose u32
\* value is not a multiple of the block size
C14_OwnLengthCheck(c) ==
    \/ /\ c.op = "finalize"
       /\ c.alg \in FixedAlgs
       /\ c.len # L(DIGEST_SIZE(c.alg))
    \/ /\ c.op = "squeeze_blocks"
       /\ u32_rem(as_u32(c.len), SQUEEZE_BLOCK_SIZE(c.alg)) # 0

\* C14: an Err is fatal to its operation only.  After a failed init, update,
\* absorb, finalize or squeeze_blocks the hash or SHAKE handle is alive and
\* not freed, and the next call on it works on the state the failed call
\* left and reaches the native library (unless it fails its own length
\* check); after a failed length check the native state is what it was
\* before the call, and a finalize that follows and succeeds writes the
\* digest of the data passed to update so far.
C14_ErrorFatalToOperationOnly ==
    [][/\ C14_HandleKept'
       /\ (C14_Failed /\ C14_NextOnSameHandle) =>
             /\ last'.pre = handles[last.h]
             /\ last'.calls = <<>> => C14_OwnLengthCheck(last')
       /\ (C14_CheckFailed /\ C14_NextOnSameHandle /\ last'.op = "finalize"
              /\ last'.res.ok /\ last.pre.absorbs = 0 /\ last.pre.given = 0) =>
             Take(last'.out, as_u32(last'.len))
                 = Take(Ideal(last.alg, <<>>, last.pre.fed, last'.len),
                        as_u32(last'.len))]_vars

\* C15: on a SHAKE handle at most one absorb() is applied to the native
\* state between an initialization and the squeeze_blocks that follows it,
\* while update() is forwarded however many updates came before.
C15_AbsorbOnceBeforeSqueeze ==
    /\ (last.op = "squeeze_blocks" /\ last.res.ok) =>
          last.pre.absorbs <= 1
    /\ last.op = "update" =>
          Len(last.calls) = 1 /\ last.calls[1].fn = "Update"

\* squeeze_blocks passed its length check and made the native call
C16_Accepted == last.op = "squeeze_blocks" /\ last.calls # <<>>

\* C16: for every buffer squeeze_blocks accepts, the number of blocks it
\* asks the native library for times the block size is dout.len(): the
\* blocks written on success fill the buffer exactly, no byte beyond it and
\* no byte of it left unwritten.
C16_BlocksFillBuffer ==
    C16_Accepted =>
        LET n_blocks == ToInt(last.calls[1].n)
            size     == SQUEEZE_BLOCK_SIZE(last.alg)
        IN  /\ L(n_blocks * size) = last.len
            /\ last.res.ok =>
                  /\ BLen(last.out) = last.len
                  /\ \A i \in DOMAIN last.out :
                        last.out[i].v.k \notin {"fill", "overflow"}

\* C17: the one-shot CMAC functions touch no handle.  generate makes one
\* native call, writes within the caller's output buffer and returns
\* Err(status) when the status is not 0; verify makes one native call and
\* writes nothing, the tag kept from generate included; neither is a call
\* on a handle, and every handle, live or not, is after the call what it
\* was before it.
C17_OneShotsTouchNoHandle ==
    [][last'.op \in {"generate", "verify"} =>
          /\ handles' = handles
          /\ last'.h \notin DOMAIN handles
          /\ Len(last'.calls) = 1
          /\ last'.op = "generate" =>
                /\ last'.calls[1].fn = "AesCmacGenerate"
                /\ last'.res = status(last'.calls[1].rc)
                /\ BLen(last'.out) = last'.len
          /\ last'.op = "verify" =>
                /\ last'.calls[1].fn = "AesCmacVerify"
                /\ gen' = gen
                /\ BLen(last'.out) = last'.len]_vars

\* generate failed on a 3-byte buffer while a CMAC handle that had been fed
\* data was alive: the handle is still alive and still holds the data
C17_Witness ==
    /\ last.op = "generate"
    /\ last.res = Err(BUFFER_E)
    /\ \E h \in DOMAIN handles :
          /\ handles[h].life = "live"
          /\ handles[h].alg = "CMAC"
          /\ handles[h].feeds > 0
          /\ handles[h].st.buf # <<>>
          /\ handles[h].frees = 0

\* C18: handles are independent.  A call on one handle (new, init, update,
\* finalize, drop) works on that handle as its own last call left it and
\* leaves every other handle, its native state included, as it was; so what
\* a finalize writes is the digest (tag) of the bytes fed to its own handle,
\* whatever was done to the other handle in between.
C18_HandlesIndependent ==
    [][last'.h \in DOMAIN handles =>
          /\ \A g \in DOMAIN handles \ {last'.h} : handles'[g] = handles[g]
          /\ last'.pre = handles[last'.h]
          /\ (last'.op = "finalize" /\ last'.res.ok) =>
                last'.out = Ideal(last'.alg, handles[last'.h].st.key,
                                  handles[last'.h].fed, last'.len)]_vars

\* two SHA256 handles: the first was fed A, finalized and dropped; the
\* second, fed B in the meantime, finalizes to the digest of B
C18_Witness ==
    /\ last.op = "finalize"
    /\ last.h = 2
    /\ last.res.ok
    /\ last.pre.fed = B
    /\ last.out = <<Seg(DigestTerm("SHA256", B), L(WC_SHA256_DIGEST_SIZE))>>
    /\ handles[1].alg = "SHA256"
    /\ handles[1].life = "dropped"
    /\ handles[1].finalized
    /\ handles[1].frees = 1

\* C19: a handle is held by one call at a time.  No two of init, update,
\* absorb, finalize, squeeze_blocks and the release on drop are in progress
\* at once on one handle; the native free runs while nothing but the drop
\* itself (or the CMAC finalize that takes the handle by value) holds the
\* handle, and a handle that is gone is held by no call.
C19_OneOwnerAtATime ==
    /\ \A h \in DOMAIN handles :
          /\ Cardinality(handles[h].busy) <= 1
          /\ handles[h].life # "live" => handles[h].busy = {}
    /\ (last.h \in DOMAIN handles /\ FreeCalls(last.calls) > 0) =>
          \E t \in Callers : last.pre.busy = {Held(t, last.op)}

\* caller 2 is inside squeeze_blocks on a SHAKE128 handle, after an absorb
\* by another call has returned, and caller 1 cannot enter any method of
\* that handle, drop included
C19_Witness ==
    /\ handles[1].alg = "SHAKE128"
    /\ handles[1].busy = {Held(2, "squeeze_blocks")}
    /\ last.op = "absorb"
    /\ last.res.ok
    /\ \A op \in Methods("SHAKE128") : ~ENABLED call(1, 1, op)

\* C20: a hash handle goes Initialized, updates, Finalized: an update()
\* is applied only to a native state that is not Finalized, that is, once a
\* finalize() has succeeded no update succeeds before an init() has.
C20_NoUpdateAfterFinalize ==
    (last.op = "update" /\ last.alg \in HashAlgs /\ last.res.ok) =>
        last.pre.st.phase # "finalized"

C21_Ops == {"new", "init", "update", "absorb", "finalize", "squeeze_blocks",
            "generate", "verify"}

\* the calls into the native library other than the free run by Drop
NativeCalls(calls) == SelectSeq(calls, LAMBDA c : c.fn # "Free")

C22_Failed == last.op \in C21_Ops /\ ~last.res.ok

\* C22: no Err carries 0, an Err of verify carries a negative value, and an
\* Err that is not the status of the call's native call is BUFFER_E from
\* the length check of a fixed-digest finalize or of squeeze_blocks.
C22_ErrValues ==
    C22_Failed =>
        LET made == NativeCalls(last.calls)
        IN  /\ last.res.val # 0
            /\ last.op = "verify" => last.res.val < 0
            /\ made # <<>> => last.res.val = made[1].rc
            /\ made = <<>> =>
                  /\ last.res.val = BUFFER_E
                  /\ last.op \in {"finalize", "squeeze_blocks"}
                  /\ C14_OwnLengthCheck(last)

\* verify given an empty tag: the native library refuses it and the Err
\* carries its negative status
C22_Witness ==
    /\ last.op = "verify"
    /\ last.len = Zero
    /\ ~last.res.ok
    /\ last.res.val < 0
    /\ last.res.val = last.calls[1].rc

\* the call that returned last handed the length of a slice to the native
\* library: update, absorb, the SHAKE and CMAC finalize, generate, verify
C23_PassesLength ==
    \/ last.op \in {"update", "absorb", "generate", "verify"}
    \/ last.op = "finalize" /\ last.alg \in ShakeAlgs \cup {"CMAC"}

\* x modulo 2^32
C23_Mod32(x) == <<0, x[2], x[3]>>

\* C23: the byte count handed to the native call is the slice length
\* modulo 2^32: the length itself when the slice is shorter than 2^32 bytes
\* and a smaller number otherwise.  The bytes the native call takes in are
\* that many: an update or absorb adds the first (length mod 2^32) bytes of
\* the slice to the state, and generate writes the tag of the first
\* (length mod 2^32) bytes of the message.
C23_LengthMod32 ==
    /\ C23_PassesLength =>
          LET n == last.calls[1].n
          IN  /\ n = C23_Mod32(last.len)
              /\ LenLt(last.len, Two32) <=> n = last.len
              /\ ~LenLt(last.len, Two32) => LenLt(n, last.len)
    /\ (last.op = "update" /\ last.res.ok) =>
          Post.st.buf = Concat(last.pre.st.buf,
                               Take(last.data, C23_Mod32(BLen(last.data))))
    /\ (last.op = "generate" /\ last.res.ok) =>
          last.out = Overwrite(last.len,
                        <<Seg(TagTerm(last.key,
                                      Norm(Take(last.data,
                                                C23_Mod32(BLen(last.data))))),
                              C23_Mod32(last.len))>>)

\* an update with a slice of 2^32 + 1 bytes: the native update was given 1
C23_Witness ==
    /\ last.op = "update"
    /\ last.alg = "SHAKE128"
    /\ last.len = LenAdd(Two32, L(1))
    /\ last.calls[1].n = L(1)
    /\ last.res.ok

\* c is a finalize of a CMAC handle that was made with key, given data in
\* one update, and asked for a tag of len bytes, and whose native call did
\* not run out of memory
C24_Incremental(c, key, data, len) ==
    /\ c.op = "finalize"
    /\ c.alg = "CMAC"
    /\ c.pre.feeds = 1
    /\ c.pre.st.key = key
    /\ c.pre.fed = data
    /\ c.len = len
    /\ c.calls[1].rc # MEMORY_E

\* C24: generate(key, data, out) and new(key), update(data), finalize(out)
\* write the same tag, and fail or succeed together.  A finalize that ends
\* the three calls after a generate of the same arguments succeeded
\* succeeds and writes what generate wrote; a generate that follows the
\* finalize, or follows a new() that the native library refused, with the
\* same arguments returns what that call returned and writes what it wrote.
C24_GenerateIsNewUpdateFinalize ==
    [][/\ (gen.ok /\ C24_Incremental(last', gen.key, gen.data, gen.len)) =>
             last'.res = Ok /\ last'.out = gen.out
       /\ (last'.op = "generate"
             /\ C24_Incremental(last, last'.key, last'.data, last'.len)) =>
             last'.res = last.res /\ last'.out = last.out
       /\ (last'.op = "generate" /\ last.op = "new" /\ last.alg = "CMAC"
             /\ last.key = last'.key /\ last.calls[1].rc = BAD_FUNC_ARG) =>
             last'.res = last.res]_vars

\* new(Key16), update of 2^32 + 1 bytes, finalize into 16 bytes, after a
\* generate of the same key, message and buffer length: the same tag
C24_Witness ==
    /\ gen.ok
    /\ C24_Incremental(last, Key16, Big, L(16))
    /\ gen.key = Key16 /\ gen.data = Big /\ gen.len = L(16)
    /\ last.res = Ok
    /\ last.out = gen.out
    /\ last.out # Fill(L(16))

\* the call that returned last was a new() whose native initializer failed
C25_NewFailed ==
    /\ last.op = "new"
    /\ last.calls[1].fn = "Init"
    /\ last.calls[1].rc # 0

\* C25: when new() fails, the native free is not invoked for the state the
\* initializer was given: new() makes the initializer call and no other,
\* returns Err of its status and no handle, and with no handle there is
\* nothing a later drop could free.
C25_FailedNewNeverFrees ==
    /\ C25_NewFailed =>
          /\ last.calls = <<Call("Init", last.alg, last.calls[1].n, last.calls[1].rc)>>
          /\ last.res = Err(last.calls[1].rc)
          /\ Post = last.pre
          /\ Post.life = "none"
          /\ ~ENABLED drop(last.h)
    /\ \A h \in DOMAIN handles :
          handles[h].life = "none" =>
              handles[h].frees = 0 /\ handles[h].st.phase # "freed"

\* SHAKE256::new() whose initializer ran out of memory: Err, no free
C25_Witness ==
    /\ C25_NewFailed
    /\ last.alg = "SHAKE256"
    /\ last.res = Err(MEMORY_E)
    /\ FreeCalls(last.calls) = 0
    /\ Post.frees = 0

\* C26: init() never invokes the native free.  An init() call makes the one
\* initializer call and leaves the handle alive with as many frees as it
\* had; a handle on which init() was called k times has had its native
\* initializer run k + 1 times (once by new()), and its native free not at
\* all while it lives and exactly once when it has been dropped.
C26_InitNeverFrees ==
    /\ last.op = "init" =>
          /\ FreeCalls(last.calls) = 0
          /\ Len(last.calls) = 1 /\ last.calls[1].fn = "Init"
          /\ Post.life = "live"
          /\ Post.frees = last.pre.frees
    /\ \A h \in DOMAIN handles :
          LET hd == handles[h]
          IN  (hd.life \in {"live", "dropped"} /\ hd.tally # NoTally) =>
                  /\ hd.tally.ran = hd.tally.inits + 1
                  /\ hd.frees = IF hd.life = "dropped" THEN 1 ELSE 0

\* a SHA handle dropped right after the third call of init(): four runs of
\* wc_InitSha, one of wc_ShaFree
C26_Witness ==
    /\ handles[1].alg = "SHA"
    /\ handles[1].life = "dropped"
    /\ handles[1].tally = [inits |-> 3, ran |-> 4]
    /\ handles[1].frees = 1
    /\ last.op = "drop"
    /\ last.pre.st.phase = "initialized"

\* the call that returned last was one of the three that write into a
\* buffer of the caller's choice without a length check: the SHAKE
\* finalize, CMAC::finalize, CMAC::generate
C27_Unchecked ==
    \/ last.op = "finalize" /\ last.alg \in ShakeAlgs \cup {"CMAC"}
    \/ last.op = "generate"

C28_Answers(c) == [i \in DOMAIN c.calls |-> c.calls[i].rc]

\* call d is the call c made over again on another handle: the same
\* operation of the same type with the same arguments, on a native state
\* equal to the one c started from, and answered by the native library as
\* c was
C28_SameCall(c, d) ==
    /\ c.h \in DOMAIN handles /\ d.h \in DOMAIN handles
    /\ d.h # c.h
    /\ d.op = c.op /\ d.alg = c.alg
    /\ d.key = c.key /\ d.data = c.data /\ d.len = c.len
    /\ d.pre.life = c.pre.life
    /\ d.pre.st = c.pre.st
    /\ C28_Answers(d) = C28_Answers(c)

C29_EmptySqueeze == last.op = "squeeze_blocks" /\ last.len = Zero

\* C29: squeeze_blocks with an empty output buffer passes the length check:
\* it makes the native squeeze call with a block count of 0, writes
\* nothing, and returns Ok when the native status is 0 (and otherwise the
\* native status), never the length-mismatch error of its own; the stream
\* position of the handle stays where it was.
C29_EmptyBufferSqueezesNothing ==
    C29_EmptySqueeze =>
        /\ Len(last.calls) = 1
        /\ last.calls[1] = Call("SqueezeBlocks", last.alg, Zero, last.calls[1].rc)
        /\ last.out = <<>>
        /\ last.res = status(last.calls[1].rc)
        /\ last.calls[1].rc = 0 =>
              /\ last.res = Ok
              /\ Post.given = last.pre.given
              /\ Post.st.squeezed = last.pre.st.squeezed
        /\ last.calls[1].rc # BUFFER_E => last.res # Err(BUFFER_E)

\* SHAKE256::squeeze_blocks(&mut []) after an absorb: Ok, no block given
C29_Witness ==
    /\ C29_EmptySqueeze
    /\ last.alg = "SHAKE256"
    /\ last.pre.absorbs = 1
    /\ last.calls[1].n = Zero
    /\ last.res = Ok
    /\ Post.given = 0

============================================================================
